---- MODULE Spec2Model ----
(***************************************************************************)
(* Model of the PlayStation 4 machine of src/orbital/hardware/ps4.cpp:     *)
(* the constructor (address-space layout, CPUs, device topology, boot      *)
(* scratch-pad), the destructor and recover().                             *)
(*                                                                         *)
(* A U64 address does not fit the 32-bit integers of the model checker, so *)
(* an address is the pair [gb, lo] standing for gb * 2^30 + lo with        *)
(* 0 <= lo < 2^30.  All sizes and offsets keep the values of the source.   *)
(***************************************************************************)
EXTENDS Integers, Sequences, FiniteSets, TLC

-----------------------------------------------------------------------------
(* Bounds of the model *)

MaxCpus == 2
MaxRecovers == 2
MaxGuestWrites == 1
ProbeSpan == 2

-----------------------------------------------------------------------------
(* U64 arithmetic on [gb, lo] pairs *)

GB == 1073741824

Addr(g, o) == [gb |-> g, lo |-> o]

AddrAdd(a, b) ==
    LET s == a.lo + b.lo
    IN  IF s >= GB THEN [gb |-> a.gb + b.gb + 1, lo |-> s - GB]
                   ELSE [gb |-> a.gb + b.gb, lo |-> s]

\* a - b for a >= b
AddrSub(a, b) ==
    IF a.lo >= b.lo THEN [gb |-> a.gb - b.gb, lo |-> a.lo - b.lo]
                    ELSE [gb |-> a.gb - b.gb - 1, lo |-> (a.lo + GB) - b.lo]

AddrLT(a, b) == a.gb < b.gb \/ (a.gb = b.gb /\ a.lo < b.lo)

AddrLE(a, b) == a = b \/ AddrLT(a, b)

\* a in [base, base + size)
InRange(a, base, size) == AddrLE(base, a) /\ AddrLT(a, AddrAdd(base, size))

\* [b1, b1 + s1) and [b2, b2 + s2) intersect
Overlap(b1, s1, b2, s2) ==
    AddrLT(b1, AddrAdd(b2, s2)) /\ AddrLT(b2, AddrAdd(b1, s1))

-----------------------------------------------------------------------------
(* Constants of the source *)

\* faulty variant of PS4_PUP_ENTRY_COREOS: the identifier of the next entry
PS4_PUP_ENTRY_COREOS_next == 5 + 1

PS4_PUP_ENTRY_COREOS == 5

PT_LOAD == 1

ram_size == Addr(8, 0)

ram_size_below_4g == Addr(2, 0)

\* faulty variant of ram_size_above_4g: all of ram_size
ram_size_above_4g_whole == ram_size

ram_size_above_4g == AddrSub(ram_size, ram_size_below_4g)

ubios_size == 524288

\* guest-physical bases handed to addSubspace
base_ram_below_4g == Addr(0, 0)

base_ram_above_4g == Addr(4, 0)

\* faulty variant of base_ubios: the shadow window one byte too high
base_ubios_off_by_one == AddrSub(Addr(4, 1), Addr(0, ubios_size))

base_ubios == AddrSub(Addr(4, 0), Addr(0, ubios_size))

\* offsets of the two aliases inside space_ram
offset_ram_below_4g == Addr(0, 0)

\* faulty variant of offset_ram_above_4g: the beginning of RAM
offset_ram_above_4g_zero == Addr(0, 0)

offset_ram_above_4g == ram_size_below_4g

boot_offset == 6291456

\* line 171: offset of the patched word in the loaded image
boothowto_offset == 3879966

\* faulty variant of scratch_sha1_size: only the two initialised bytes
scratch_sha1_size_initialised == Len(<<248, 111>>)

scratch_sha1_size == 20

-----------------------------------------------------------------------------
(* Host buffers and memory spaces.                                         *)
(* A buffer is either a literal byte sequence or program data of a given   *)
(* size whose byte i is (seed + i) mod 256.  A memory space is its size,   *)
(* the value of its never-written bytes and the list of the writes that    *)
(* are still (partly) visible, oldest first.                               *)

LitBuf(bytes) == [size |-> Len(bytes), lit |-> bytes, seed |-> 0]

Pdata(n, s) == [size |-> n, lit |-> << >>, seed |-> s]

BufByte(b, i) == IF b.lit # << >> THEN b.lit[i + 1] ELSE (b.seed + i) % 256

\* byte i of a copy of len bytes that starts at b.data(): reading at or past
\* b.size is a read past the end of the buffer and yields e.junk
ExtByte(e, i) == IF i < e.buf.size THEN BufByte(e.buf, i) ELSE e.junk

NewSpace(size, fill) == [size |-> size, fill |-> fill, log |-> << >>]

OutOfBounds == -1

\* MemorySpace::write bounds: [off, off + len) within [0, size)
MemWriteOk(m, off, len) == AddrLE(AddrAdd(off, Addr(0, len)), m.size)

Covered(e, n) ==
    /\ AddrLE(n.base, e.base)
    /\ AddrLE(AddrAdd(e.base, Addr(0, e.len)), AddrAdd(n.base, Addr(0, n.len)))

\* MemorySpace::write(off, len, data): copies len bytes from data to off
MemWrite(m, off, len, buf, junk) ==
    LET n == [base |-> off, len |-> len, buf |-> buf, junk |-> junk]
    IN  IF len = 0 THEN m
        ELSE [m EXCEPT !.log =
                 Append(SelectSeq(m.log, LAMBDA e : ~Covered(e, n)), n)]

\* MemorySpace::read of one byte
MemRead(m, a) ==
    IF ~AddrLT(a, m.size) THEN OutOfBounds
    ELSE LET K == {k \in DOMAIN m.log :
                      InRange(a, m.log[k].base, Addr(0, m.log[k].len))}
         IN  IF K = {} THEN m.fill
             ELSE LET k == CHOOSE x \in K : \A y \in K : y <= x
                  IN  ExtByte(m.log[k], AddrSub(a, m.log[k].base).lo)

-----------------------------------------------------------------------------
(* Boot scratch-pad: the stores of lines 102-118 in program order *)

sha1_null16_preimage == <<248, 111, 0, 0, 0, 0, 0, 0, 0, 0,
                          0, 0, 0, 0, 0, 0, 0, 0, 0, 0>>

ScratchTable ==
    << [off |-> 0,   bytes |-> <<6>>],
       [off |-> 6,   bytes |-> <<4>>],
       [off |-> 9,   bytes |-> <<2>>],
       [off |-> 12,  bytes |-> <<1>>],
       [off |-> 13,  bytes |-> <<130>>],
       [off |-> 456, bytes |-> <<87>>],
       [off |-> 457, bytes |-> <<53>>],
       [off |-> 458, bytes |-> <<67>>],
       [off |-> 459, bytes |-> <<50>>],
       [off |-> 460, bytes |-> <<49>>],
       [off |-> 352, bytes |-> SubSeq(sha1_null16_preimage, 1, scratch_sha1_size)] >>

RECURSIVE ApplyScratch(_, _)
ApplyScratch(m, k) ==
    IF k > Len(ScratchTable) THEN m
    ELSE ApplyScratch(
             MemWrite(m, Addr(0, boot_offset + ScratchTable[k].off),
                      Len(ScratchTable[k].bytes), LitBuf(ScratchTable[k].bytes), 0),
             k + 1)

-----------------------------------------------------------------------------
(* Firmware files.  A file either cannot be opened or is an archive (BLS): *)
(* a function from entry names to update packages (PUP), each a function   *)
(* from entry identifiers to archives, each a function from entry names to *)
(* signed executables (SELF), each a list of program headers with data.    *)

Phdr(type, paddr, pdata) == [p_type |-> type, p_paddr |-> paddr, pdata |-> pdata]

NoPhdr == Phdr(-1, Addr(0, 0), Pdata(0, 0))

Self(phdrs) == [phdrs |-> phdrs]

File(name, open, bls) == [name |-> name, open |-> open, bls |-> bls]

SegSmall == Phdr(PT_LOAD, Addr(0, 2097152), Pdata(5, 17))

SegNote == Phdr(4, Addr(0, 4096), Pdata(3, 33))

SegDecoy == Phdr(PT_LOAD, Addr(0, 65536), Pdata(ubios_size, 99))

\* a well-formed nesting around the signed executable with headers phdrs,
\* next to entries of other names and identifiers
Firmware(name, phdrs) ==
    File(name, TRUE,
         ("PS4UPDATE1.PUP" :>
              ((5 :>
                    (("80010002" :> Self(phdrs))
                       @@ ("80010001" :> Self(<<SegDecoy>>))))
                 @@ (6 :> ("80010002" :> Self(<<SegDecoy>>)))))
           @@ ("PS4UPDATE2.PUP" :>
                   (5 :> ("80010002" :> Self(<<SegDecoy>>)))))

Files ==
    { File("unreadable", FALSE, ("PS4UPDATE1.PUP" :>
               (5 :> ("80010002" :> Self(<<SegSmall>>))))),
      File("no_pup", TRUE, ("PS4UPDATE2.PUP" :>
               (5 :> ("80010002" :> Self(<<SegSmall>>))))),
      File("no_coreos", TRUE, ("PS4UPDATE1.PUP" :>
               (6 :> ("80010002" :> Self(<<SegSmall>>))))),
      File("no_kernel", TRUE, ("PS4UPDATE1.PUP" :>
               (5 :> ("80010001" :> Self(<<SegSmall>>))))),
      Firmware("phnum0", << >>),
      Firmware("phnum2", <<SegSmall, SegNote>>),
      Firmware("not_load", <<SegNote>>),
      Firmware("small", <<SegSmall>>),
      Firmware("kernel", <<Phdr(PT_LOAD, Addr(0, 1048576),
                                Pdata(boothowto_offset + 8, 1))>>),
      Firmware("long", <<Phdr(PT_LOAD, Addr(0, boot_offset - 2),
                              Pdata(ubios_size + 1, 7))>>),
      Firmware("cross2g", <<Phdr(PT_LOAD, Addr(1, GB - 2), Pdata(ubios_size, 11))>>),
      Firmware("above4g", <<Phdr(PT_LOAD, Addr(4, 4096), Pdata(ubios_size, 13))>>),
      Firmware("beyond", <<Phdr(PT_LOAD, Addr(7, GB - 2), Pdata(ubios_size, 15))>>) }

FileNamed(n) == CHOOSE f \in Files : f.name = n

\* what a read past the end of a buffer, or of a header that does not exist,
\* can yield
JunkBytes == {0, 204}

JunkPhdrs == {Phdr(0, Addr(0, 8192), Pdata(0, 0))}

FillBytes == {0, 204}

Backends == {"null", "pty"}

-----------------------------------------------------------------------------
(* State *)

VARIABLES
    pc,          \* position in the life of the machine
    config,      \* PS4MachineConfig: cpu_count, aeolia_uart0, aeolia_uart1
    ndebug,      \* TRUE when the build defines NDEBUG (assert compiled out)
    created,     \* objects in the order of their construction
    cpu_handlers,\* indices of the CPU devices with a state-change handler
    destroyed,   \* objects in the order of their deletion
    aliases,     \* the AliasSpace objects: set of [name, parent, offset, size]
    subspaces,   \* registry of space_mem: sequence of [space, base, size]
    overlap_err, \* TRUE once an addSubspace call failed with OverlapError
    space_ram,   \* the RAM MemorySpace (size 0 and the value its fresh bytes
                 \* will have, until it is allocated)
    space_ubios, \* the UBIOS MemorySpace
    running,     \* TRUE while the CPU devices are started
    pcie_spm,    \* the region wired into aeolia_pcie by set_spm
    apcie_config,\* the configuration aeolia_pcie was constructed with
    scratch_runs,\* how many times the scratch-pad table has been applied
    nrecover,    \* number of recover calls so far
    nguest,      \* number of guest stores so far
    last,        \* the last recover call: file, result, selected header
    last_store   \* the last guest store: alias, offset, parent offset, byte

vars == <<pc, config, ndebug, cpu_handlers, created, destroyed, aliases, subspaces,
          overlap_err, space_ram, space_ubios, running, pcie_spm, apcie_config,
          scratch_runs, nrecover, nguest, last, last_store>>

Obj(kind) == [kind |-> kind, idx |-> 0]

Cpu(i) == [kind |-> "cpu", idx |-> i]

NoSpace == NewSpace(Addr(0, 0), 0)

NoCall == [file |-> "none", result |-> "none", phdr |-> NoPhdr,
           was_running |-> FALSE]

NoStore == [alias |-> "none", off |-> Addr(0, 0), parent_off |-> Addr(0, 0),
            byte |-> 0]

Init ==
    /\ pc = "ctor_vm"
    /\ config \in [cpu_count : 0..MaxCpus, aeolia_uart0 : Backends,
                    aeolia_uart1 : Backends]
    /\ ndebug \in BOOLEAN
    /\ created = << >>
    /\ cpu_handlers = {}
    /\ destroyed = << >>
    /\ aliases = {}
    /\ subspaces = << >>
    /\ overlap_err = FALSE
    /\ space_ram \in {NewSpace(Addr(0, 0), f) : f \in FillBytes}
    /\ space_ubios = NoSpace
    /\ running = FALSE
    /\ pcie_spm = "unset"
    /\ apcie_config = [backend_uart0 |-> "unset", backend_uart1 |-> "unset"]
    /\ scratch_runs = 0
    /\ nrecover = 0
    /\ nguest = 0
    /\ last = NoCall
    /\ last_store = NoStore

-----------------------------------------------------------------------------
(* CompositeSpace (space_mem) *)

\* addSubspace(subspace, base): OverlapError when the new range intersects
\* a registered one
CanAdd(reg, base, size) ==
    \A k \in DOMAIN reg : ~Overlap(base, size, reg[k].base, reg[k].size)

AddSubspace(reg, space, base, size) ==
    IF CanAdd(reg, base, size)
    THEN Append(reg, [space |-> space, base |-> base, size |-> size])
    ELSE reg

\* resolve(address): the owning subspaces with the local offset
Resolve(reg, a) ==
    {[space |-> reg[k].space, off |-> AddrSub(a, reg[k].base)] :
        k \in {j \in DOMAIN reg : InRange(a, reg[j].base, reg[j].size)}}

AliasOf(name) == CHOOSE al \in aliases : al.name = name

-----------------------------------------------------------------------------
(* PS4Machine::PS4Machine *)

\* line 40
CtorVm ==
    /\ pc = "ctor_vm"
    /\ created' = Append(created, Obj("vm"))
    /\ pc' = "ctor_ram"
    /\ UNCHANGED <<config, ndebug, cpu_handlers, destroyed, aliases, subspaces, overlap_err,
                   space_ram, space_ubios, running, pcie_spm, apcie_config,
                   scratch_runs, nrecover, nguest, last, last_store>>

\* lines 43-51
CtorRam ==
    /\ pc = "ctor_ram"
    /\ space_ram' = NewSpace(ram_size, space_ram.fill)
    /\ aliases' = {[name |-> "space_ram_below_4g", parent |-> "space_ram",
                     offset |-> offset_ram_below_4g, size |-> ram_size_below_4g],
                    [name |-> "space_ram_above_4g", parent |-> "space_ram",
                     offset |-> offset_ram_above_4g, size |-> ram_size_above_4g]}
    /\ created' = created \o <<Obj("space_ram"), Obj("space_ram_below_4g"),
                                Obj("space_ram_above_4g")>>
    /\ LET r1 == AddSubspace(subspaces, "space_ram_below_4g",
                             base_ram_below_4g, ram_size_below_4g)
           r2 == AddSubspace(r1, "space_ram_above_4g",
                             base_ram_above_4g, ram_size_above_4g)
       IN  /\ subspaces' = r2
           /\ overlap_err' = (overlap_err \/ Len(r2) # Len(subspaces) + 2)
    /\ pc' = "ctor_ubios"
    /\ UNCHANGED <<config, ndebug, cpu_handlers, destroyed, space_ubios, running, pcie_spm,
                   apcie_config, scratch_runs, nrecover, nguest, last, last_store>>

\* lines 54-56
CtorUbios ==
    /\ pc = "ctor_ubios"
    /\ space_ubios' = NewSpace(Addr(0, ubios_size), space_ram.fill)
    /\ created' = Append(created, Obj("space_ubios"))
    /\ LET r == AddSubspace(subspaces, "space_ubios", base_ubios, Addr(0, ubios_size))
       IN  /\ subspaces' = r
           /\ overlap_err' = (overlap_err \/ Len(r) # Len(subspaces) + 1)
    /\ pc' = "ctor_cpu"
    /\ UNCHANGED <<config, ndebug, cpu_handlers, destroyed, aliases, space_ram, running,
                   pcie_spm, apcie_config, scratch_runs, nrecover, nguest, last,
                   last_store>>

NumCpus == Cardinality({k \in DOMAIN created : created[k].kind = "cpu"})

\* faulty variant of CpuLoopDone: the loop is left at any time
CpuLoopDone_early == TRUE

\* line 59: the loop condition i < config.cpu_count no longer holds
CpuLoopDone == ~(NumCpus < config.cpu_count)

\* lines 59-63: one iteration of the loop
CtorCpu ==
    /\ pc = "ctor_cpu"
    /\ ~CpuLoopDone
    /\ created' = Append(created, Cpu(NumCpus))
    /\ cpu_handlers' = cpu_handlers \cup {NumCpus}
    /\ UNCHANGED <<pc, config, ndebug, destroyed, aliases, subspaces, overlap_err,
                   space_ram, space_ubios, running, pcie_spm, apcie_config,
                   scratch_runs, nrecover, nguest, last, last_store>>

LiverpoolOrder ==
    <<Obj("lvp_host"), Obj("lvp_rc"), Obj("lvp_gc"), Obj("lvp_hdac"),
      Obj("lvp_iommu"), Obj("lvp_rp"), Obj("lvp_fnc0"), Obj("lvp_fnc1"),
      Obj("lvp_fnc2"), Obj("lvp_fnc3"), Obj("lvp_fnc4"), Obj("lvp_fnc5")>>

\* lines 59 (loop exit), 66-79
CtorLiverpool ==
    /\ pc = "ctor_cpu"
    /\ CpuLoopDone
    /\ created' = created \o LiverpoolOrder
    /\ pc' = "ctor_aeolia"
    /\ UNCHANGED <<config, ndebug, cpu_handlers, destroyed, aliases, subspaces, overlap_err,
                   space_ram, space_ubios, running, pcie_spm, apcie_config,
                   scratch_runs, nrecover, nguest, last, last_store>>

AeoliaCtorOrder ==
    <<Obj("aeolia_acpi"), Obj("aeolia_gbe"), Obj("aeolia_ahci"),
      Obj("aeolia_sdhci"), Obj("aeolia_pcie"), Obj("aeolia_dmac"),
      Obj("aeolia_mem"), Obj("aeolia_xhci")>>

\* lines 82-93
CtorAeolia ==
    /\ pc = "ctor_aeolia"
    /\ apcie_config' = [backend_uart0 |-> config.aeolia_uart0,
                        backend_uart1 |-> config.aeolia_uart1]
    /\ created' = created \o AeoliaCtorOrder
    /\ pc' = "ctor_wire"
    /\ UNCHANGED <<config, ndebug, cpu_handlers, destroyed, aliases, subspaces, overlap_err,
                   space_ram, space_ubios, running, pcie_spm, scratch_runs,
                   nrecover, nguest, last, last_store>>

Exists(o) == (\E k \in DOMAIN created : created[k] = o)
             /\ ~(\E k \in DOMAIN destroyed : destroyed[k] = o)

\* aeolia_mem->get_spm()
GetSpm == IF Exists(Obj("aeolia_mem")) THEN "aeolia_mem.spm" ELSE "dangling"

\* line 96
CtorWire ==
    /\ pc = "ctor_wire"
    /\ pcie_spm' = GetSpm
    /\ pc' = "ctor_scratch"
    /\ UNCHANGED <<config, ndebug, cpu_handlers, created, destroyed, aliases, subspaces,
                   overlap_err, space_ram, space_ubios, running, apcie_config,
                   scratch_runs, nrecover, nguest, last, last_store>>

\* lines 99-118
CtorScratch ==
    /\ pc = "ctor_scratch"
    /\ space_ram' = ApplyScratch(space_ram, 1)
    /\ scratch_runs' = scratch_runs + 1
    /\ pc' = "ready"
    /\ UNCHANGED <<config, ndebug, cpu_handlers, created, destroyed, aliases, subspaces,
                   overlap_err, space_ubios, running, pcie_spm, apcie_config,
                   nrecover, nguest, last, last_store>>

-----------------------------------------------------------------------------
(* Running machine *)

\* Machine::reset(): CPU and device state is re-initialised, CPUs stopped
ResetState == FALSE

Reset ==
    /\ pc = "ready"
    /\ running
    /\ running' = ResetState
    /\ UNCHANGED <<pc, config, ndebug, cpu_handlers, created, destroyed, aliases, subspaces,
                   overlap_err, space_ram, space_ubios, pcie_spm, apcie_config,
                   scratch_runs, nrecover, nguest, last, last_store>>

\* the CPU devices are started
StartCpus ==
    /\ pc = "ready"
    /\ ~running
    /\ NumCpus > 0
    /\ running' = TRUE
    /\ UNCHANGED <<pc, config, ndebug, cpu_handlers, created, destroyed, aliases, subspaces,
                   overlap_err, space_ram, space_ubios, pcie_spm, apcie_config,
                   scratch_runs, nrecover, nguest, last, last_store>>

StoreOffsets(al) == {Addr(0, 0), AddrSub(al.size, Addr(0, 1))}

\* AliasSpace::write(off, data): forwarded to the parent at offset + off
AliasTarget(al, off) == AddrAdd(al.offset, off)

\* a running CPU stores one byte through one of the RAM aliases
GuestStore ==
    /\ pc = "ready"
    /\ running
    /\ nguest < MaxGuestWrites
    /\ \E al \in aliases : \E off \in StoreOffsets(al) :
          /\ space_ram' = MemWrite(space_ram, AliasTarget(al, off), 1,
                                   LitBuf(<<170>>), 0)
          /\ last_store' = [alias |-> al.name, off |-> off,
                            parent_off |-> AliasTarget(al, off), byte |-> 170]
    /\ nguest' = nguest + 1
    /\ UNCHANGED <<pc, config, ndebug, cpu_handlers, created, destroyed, aliases, subspaces,
                   overlap_err, space_ubios, running, pcie_spm, apcie_config,
                   scratch_runs, nrecover, last>>

-----------------------------------------------------------------------------
(* PS4Machine::recover *)

\* BlsParser::get, PupParser::get: the entry, or EntryNotFound
HasEntry(container, key) == key \in DOMAIN container

\* lines 147-154: the first failing step of the container chain
PipelineError(f) ==
    IF ~f.open THEN "OpenFailed"
    ELSE IF ~HasEntry(f.bls, "PS4UPDATE1.PUP") THEN "EntryNotFound"
    ELSE IF ~HasEntry(f.bls["PS4UPDATE1.PUP"], PS4_PUP_ENTRY_COREOS)
         THEN "EntryNotFound"
    ELSE IF ~HasEntry(f.bls["PS4UPDATE1.PUP"][PS4_PUP_ENTRY_COREOS], "80010002")
         THEN "EntryNotFound"
    ELSE "none"

\* lines 149-154: the signed executable the chain ends at
Kernel(f) == f.bls["PS4UPDATE1.PUP"][PS4_PUP_ENTRY_COREOS]["80010002"]

\* line 157: ehdr.e_phnum
Phnum(f) == Len(Kernel(f).phdrs)

\* line 158: assert(ehdr.e_phnum == 1) stops the program unless NDEBUG
PhnumAssertFails(f) == ~ndebug /\ Phnum(f) # 1

\* lines 159-160: get_phdr(0), get_pdata(0); with no program header the
\* header read does not exist and anything may come back
GetPhdr0(f) == IF Phnum(f) > 0 THEN {Kernel(f).phdrs[1]} ELSE JunkPhdrs

\* line 161: assert(phdr.p_type == PT_LOAD) stops the program unless NDEBUG
TypeAssertFails(h) == ~ndebug /\ h.p_type # PT_LOAD

\* line 164: destination and length of the RAM write
RamWriteAt(h) == h.p_paddr

RamWriteLen(h) == h.pdata.size

\* line 165: length of the UBIOS write
UbiosWriteLen(h) == space_ubios.size.lo

\* what is recorded of a recover call, was_running being the state of the
\* CPUs when it was made
Call(f, result, h) == [file |-> f.name, result |-> result, phdr |-> h,
                       was_running |-> running]

\* recover ends with an exception: the machine lives on
RecoverThrows(f, err, h) ==
    /\ last' = Call(f, err, h)
    /\ UNCHANGED <<pc, space_ram, space_ubios>>

\* recover ends the process: a failed assert (reported as the
\* UnsupportedImage it stands for) or a fault
RecoverDies(f, how, h, state) ==
    /\ last' = Call(f, how, h)
    /\ pc' = state
    /\ UNCHANGED <<space_ram, space_ubios>>

\* faulty variant of PatchEnabled: the patch block taken
PatchEnabled_on == TRUE

\* line 168: if (0)
PatchEnabled == FALSE

\* 0x800 in a little-endian U32 is bit 3 of its second byte
OrVerbose(b) == IF (b \div 8) % 2 = 1 THEN b ELSE b + 8

\* lines 168-172: (U32&)img[0x3B341E] |= 0x800 on the backing store of RAM
PatchKernel(m, h) ==
    LET a == AddrAdd(h.p_paddr, Addr(0, boothowto_offset + 1))
    IN  IF PatchEnabled /\ AddrLT(a, m.size)
        THEN MemWrite(m, a, 1, LitBuf(<<OrVerbose(MemRead(m, a))>>), 0)
        ELSE m

\* lines 164-172
LoadSegment(f, h) ==
    IF ~MemWriteOk(space_ram, RamWriteAt(h), RamWriteLen(h))
    THEN RecoverThrows(f, "OutOfBounds", h)
    ELSE LET loaded == MemWrite(space_ram, RamWriteAt(h), RamWriteLen(h),
                                h.pdata, 0)
         IN  IF UbiosWriteLen(h) <= h.pdata.size
             THEN /\ space_ubios' = MemWrite(space_ubios, Addr(0, 0),
                                             UbiosWriteLen(h), h.pdata, 0)
                  /\ space_ram' = PatchKernel(loaded, h)
                  /\ last' = Call(f, "ok", h)
                  /\ UNCHANGED pc
             ELSE \* the copy reads past the end of pdata
                  \/ \E j \in JunkBytes :
                        /\ space_ubios' = MemWrite(space_ubios, Addr(0, 0),
                                                   UbiosWriteLen(h), h.pdata, j)
                        /\ space_ram' = PatchKernel(loaded, h)
                        /\ last' = Call(f, "ok", h)
                        /\ UNCHANGED pc
                  \/ /\ space_ram' = loaded
                     /\ last' = Call(f, "crash", h)
                     /\ pc' = "crashed"
                     /\ UNCHANGED space_ubios

\* faulty variant of RunningAfterRecover: the reset step left out
RunningAfterRecover_noreset == running

\* line 144: reset() is the first statement of recover
RunningAfterRecover == ResetState

\* faulty variant of SubspacesAfterRecover: the last subspace unregistered
SubspacesAfterRecover_unregistered == SubSeq(subspaces, 1, Len(subspaces) - 1)

\* lines 142-176: recover calls neither addSubspace nor any other method of
\* space_mem
SubspacesAfterRecover == subspaces

Recover ==
    /\ pc = "ready"
    /\ nrecover < MaxRecovers
    /\ nrecover' = nrecover + 1
    /\ running' = RunningAfterRecover
    /\ \E f \in Files :
          IF PipelineError(f) # "none"
          THEN RecoverThrows(f, PipelineError(f), NoPhdr)
          ELSE IF PhnumAssertFails(f)
          THEN RecoverDies(f, "UnsupportedImage", NoPhdr, "aborted")
          ELSE \/ \E h \in GetPhdr0(f) :
                    IF TypeAssertFails(h)
                    THEN RecoverDies(f, "UnsupportedImage", h, "aborted")
                    ELSE LoadSegment(f, h)
               \/ /\ Phnum(f) = 0
                  /\ RecoverDies(f, "crash", NoPhdr, "crashed")
    /\ subspaces' = SubspacesAfterRecover
    /\ UNCHANGED <<config, ndebug, cpu_handlers, created, destroyed, aliases, overlap_err,
                   pcie_spm, apcie_config, scratch_runs, nguest, last_store>>

-----------------------------------------------------------------------------
(* PS4Machine::~PS4Machine *)

\* faulty variant of AeoliaDtorOrder: the reverse of the construction order
AeoliaDtorOrder_reversed ==
    <<Obj("aeolia_xhci"), Obj("aeolia_mem"), Obj("aeolia_dmac"),
      Obj("aeolia_pcie"), Obj("aeolia_sdhci"), Obj("aeolia_ahci"),
      Obj("aeolia_gbe"), Obj("aeolia_acpi")>>

\* lines 123-130
AeoliaDtorOrder ==
    <<Obj("aeolia_acpi"), Obj("aeolia_gbe"), Obj("aeolia_ahci"),
      Obj("aeolia_sdhci"), Obj("aeolia_pcie"), Obj("aeolia_dmac"),
      Obj("aeolia_mem"), Obj("aeolia_xhci")>>

\* line 133: delete lvp_host.  LiverpoolHost is not part of this file; its
\* destructor is taken to release, with its bus, the devices still attached
\* to it, last attached first
RECURSIVE Reverse(_)
Reverse(q) == IF q = << >> THEN << >> ELSE Append(Reverse(Tail(q)), Head(q))

HostDtorOrder == <<Obj("lvp_host")>> \o Reverse(Tail(LiverpoolOrder))

RamDtorOrder ==
    <<Obj("space_ubios"), Obj("space_ram_above_4g"), Obj("space_ram_below_4g"),
      Obj("space_ram")>>

\* lines 121-140: the body of the destructor
Dtor ==
    /\ pc = "ready"
    /\ destroyed' = destroyed \o AeoliaDtorOrder \o HostDtorOrder
                        \o RamDtorOrder
    /\ pc' = "destroyed"
    /\ UNCHANGED <<config, ndebug, cpu_handlers, created, aliases, subspaces, overlap_err,
                   space_ram, space_ubios, running, pcie_spm, apcie_config,
                   scratch_runs, nrecover, nguest, last, last_store>>

-----------------------------------------------------------------------------

CtorStep ==
    \/ CtorVm
    \/ CtorRam
    \/ CtorUbios
    \/ CtorCpu
    \/ CtorLiverpool
    \/ CtorAeolia
    \/ CtorWire
    \/ CtorScratch

\* the machine of ps4.cpp: construction, recover, reset, start, destruction
Next ==
    \/ CtorStep
    \/ Reset
    \/ StartCpus
    \/ Recover
    \/ Dtor

Spec == Init /\ [][Next]_vars

\* a constructed machine whose running CPUs store through the RAM aliases
NextGuest ==
    \/ CtorStep
    \/ Reset
    \/ StartCpus
    \/ GuestStore
    \/ Dtor

SpecGuest == Init /\ [][NextGuest]_vars

-----------------------------------------------------------------------------
(* Reading the state *)

Min(a, b) == IF a <= b THEN a ELSE b

Max(a, b) == IF a >= b THEN a ELSE b

\* the offsets of an n-byte range that the properties read: its first and
\* last ProbeSpan bytes and those around offset ubios_size
PayloadIdx(n) ==
    (0..(Min(n, ProbeSpan) - 1))
    \cup (Max(0, n - ProbeSpan)..(n - 1))
    \cup {i \in (ubios_size - ProbeSpan)..(ubios_size + ProbeSpan - 1) : i < n}

UnmappedAddress == -2

\* a guest read of one byte through the composite space: the byte, or
\* UnmappedAddress when no or several subspaces own the address
GuestRead(a) ==
    LET R == Resolve(subspaces, a)
    IN  IF Cardinality(R) # 1 THEN UnmappedAddress
        ELSE LET r == CHOOSE x \in R : TRUE
             IN  IF r.space = "space_ubios" THEN MemRead(space_ubios, r.off)
                 ELSE MemRead(space_ram, AliasTarget(AliasOf(r.space), r.off))

\* a recover call has just returned or ended the process
RecoverStep == nrecover' = nrecover + 1

LastOk == pc = "ready" /\ last.result = "ok"

\* the segment is completely in RAM at its address / in the shadow at 0
SegInRam(ram, h) ==
    \A i \in PayloadIdx(h.pdata.size) :
        MemRead(ram, AddrAdd(h.p_paddr, Addr(0, i))) = BufByte(h.pdata, i)

SegInUbios(ubios, h) ==
    \A i \in PayloadIdx(h.pdata.size) :
        MemRead(ubios, Addr(0, i)) = BufByte(h.pdata, i)

-----------------------------------------------------------------------------
(* Claims *)

\* C1: after a successful recover, for a payload of any length, the bytes of
\* RAM from the segment's physical address and the bytes of the firmware
\* shadow from offset 0 equal the payload over its whole length.
\* Fails: line 165 copies space_ubios->size() bytes whatever the payload
\* length, so a longer payload is cut at 0x80000 bytes.
C1_DualWrite ==
    LastOk => /\ SegInRam(space_ram, last.phdr)
              /\ SegInUbios(space_ubios, last.phdr)

\* C2: a signed executable whose program-header count is not exactly one
\* makes recover fail with UnsupportedImage, without selecting program
\* header 0 and without writing to RAM or to the firmware shadow.
\* Fails: the count is checked by assert only (line 158).
C2_SingleSegment ==
    [][(RecoverStep /\ PipelineError(FileNamed(last'.file)) = "none"
           /\ Phnum(FileNamed(last'.file)) # 1)
         => (/\ last'.result = "UnsupportedImage"
             /\ last'.phdr = NoPhdr
             /\ space_ram' = space_ram
             /\ space_ubios' = space_ubios)]_vars

\* C3: recover has no partial success: either the segment is completely in
\* RAM and in the firmware shadow, or recover ends with an error and neither
\* memory was modified by the call.
\* Fails through line 165 (see C1).
C3_NoPartialSuccess ==
    [][RecoverStep
         => \/ /\ last'.result = "ok"
               /\ SegInRam(space_ram', last'.phdr)
               /\ SegInUbios(space_ubios', last'.phdr)
            \/ /\ last'.result # "ok"
               /\ space_ram' = space_ram
               /\ space_ubios' = space_ubios]_vars

\* C4: after a successful recover the segment is at its declared
\* guest-physical address in the composite space: the guest addresses
\* [p, p + n) lie in one registered subspace and read back the payload.
\* Fails: line 164 writes at offset p_paddr of the RAM backing store, not at
\* guest address p_paddr of the composite space.
C4_SegmentAtGuestAddress ==
    LastOk =>
        LET h == last.phdr
        IN  /\ \A i \in PayloadIdx(h.pdata.size) :
                  GuestRead(AddrAdd(h.p_paddr, Addr(0, i))) = BufByte(h.pdata, i)
            /\ \A i, j \in PayloadIdx(h.pdata.size) :
                  {r.space : r \in Resolve(subspaces, AddrAdd(h.p_paddr, Addr(0, i)))}
                  = {r.space : r \in Resolve(subspaces, AddrAdd(h.p_paddr, Addr(0, j)))}

LayoutBuilt == pc \notin {"ctor_vm", "ctor_ram", "ctor_ubios"}

\* C5: the three subspaces registered by the constructor are RAM below 4GB
\* at 0 with size 0x80000000, RAM above 4GB at 4GB with size 6GB and the
\* firmware shadow at 4GB - 0x80000 with size 0x80000; their ranges are
\* pairwise disjoint, no addSubspace call fails with OverlapError, and this
\* holds in every state after construction, reset and recover.
C5_NoOverlap ==
    /\ ~overlap_err
    /\ \A i, j \in DOMAIN subspaces :
          i # j => ~Overlap(subspaces[i].base, subspaces[i].size,
                            subspaces[j].base, subspaces[j].size)
    /\ LayoutBuilt =>
          subspaces =
            << [space |-> "space_ram_below_4g", base |-> Addr(0, 0),
                size |-> Addr(2, 0)],
               [space |-> "space_ram_above_4g", base |-> Addr(4, 0),
                size |-> Addr(6, 0)],
               [space |-> "space_ubios", base |-> Addr(3, 1073217536),
                size |-> Addr(0, 524288)] >>

C5_Witness ==
    /\ LastOk
    /\ Len(subspaces) = 3
    /\ ~running

\* the addresses within ProbeSpan of a boundary of the layout
Boundaries == {Addr(0, 0), Addr(2, 0), Addr(3, 1073217536), Addr(4, 0),
               Addr(8, 0), Addr(10, 0)}

ProbeAddrs ==
    UNION {{AddrAdd(b, Addr(0, k)) : k \in 0..ProbeSpan}
             \cup {AddrSub(b, Addr(0, k)) :
                      k \in {x \in 1..ProbeSpan : b # Addr(0, 0)}} :
           b \in Boundaries}

\* C6: in the constructed layout an address in [0, 0x80000000) resolves to
\* the lower alias at the same offset, one in [4GB - 0x80000, 4GB) to the
\* firmware shadow at address - (4GB - 0x80000), one in [4GB, 10GB) to the
\* upper alias at address - 4GB, and any other address to nothing; no
\* address resolves to two subspaces.
C6_Resolution ==
    LayoutBuilt =>
      \A a \in ProbeAddrs :
        Resolve(subspaces, a) =
          IF AddrLT(a, Addr(2, 0))
          THEN {[space |-> "space_ram_below_4g", off |-> a]}
          ELSE IF AddrLE(Addr(3, 1073217536), a) /\ AddrLT(a, Addr(4, 0))
          THEN {[space |-> "space_ubios",
                 off |-> Addr(0, a.lo - 1073217536)]}
          ELSE IF AddrLE(Addr(4, 0), a) /\ AddrLT(a, Addr(10, 0))
          THEN {[space |-> "space_ram_above_4g",
                 off |-> Addr(a.gb - 4, a.lo)]}
          ELSE {}

C6_Witness ==
    /\ pc = "ready"
    /\ Resolve(subspaces, Addr(9, GB - 1)) # {}
    /\ Resolve(subspaces, Addr(3, 0)) = {}

\* the two aliases lie inside space_ram, on [0, 0x80000000) and
\* [0x80000000, 8GB)
C7_Layout ==
    aliases # {} =>
      /\ \A al \in aliases :
            AddrLE(AddrAdd(al.offset, al.size), space_ram.size)
      /\ \A al, o \in aliases :
            al # o => ~Overlap(al.offset, al.size, o.offset, o.size)
      /\ {[offset |-> al.offset, size |-> al.size] : al \in aliases}
            = {[offset |-> Addr(0, 0), size |-> Addr(2, 0)],
               [offset |-> Addr(2, 0), size |-> Addr(6, 0)]}
      /\ space_ram.size = Addr(8, 0)

\* C7: each RAM alias satisfies offset + size <= parent.size, the aliases
\* cover the disjoint ranges [0, 0x80000000) and [0x80000000, 8GB) of the
\* 8GB backing store, and a store through one alias at offset o changes
\* exactly the parent byte at alias.offset + o and no byte visible through
\* the other alias.
C7_Aliases ==
    [][/\ C7_Layout'
       /\ nguest' # nguest =>
            LET st == last_store'
                al == CHOOSE x \in aliases : x.name = st.alias
                t  == AddrAdd(al.offset, st.off)
            IN  /\ MemRead(space_ram', t) = st.byte
                /\ \A a \in {x \in ProbeAddrs : AddrLT(x, Addr(8, 0))} \ {t} :
                      MemRead(space_ram', a) = MemRead(space_ram, a)
                /\ \A o \in aliases \ {al} :
                      ~InRange(t, o.offset, o.size)]_vars

C7_Witness ==
    /\ last_store.alias = "space_ram_above_4g"
    /\ last_store.off = Addr(5, GB - 1)
    /\ MemRead(space_ram, Addr(7, GB - 1)) = 170

Pos(q, o) == CHOOSE k \in DOMAIN q : q[k] = o

Destroyed(o) == \E k \in DOMAIN destroyed : destroyed[k] = o

\* C8: teardown is the strict reverse of construction: every object the
\* machine constructed is destroyed, and an object constructed before
\* another is destroyed after it.
\* Fails: lines 123-130 delete the Aeolia devices in construction order.
C8_ReverseTeardown ==
    pc = "destroyed" =>
      LET objs == SelectSeq(created, LAMBDA o : o.kind # "vm")
      IN  /\ \A k \in DOMAIN objs : Destroyed(objs[k])
          /\ \A i, j \in DOMAIN objs :
                i < j => Pos(destroyed, objs[j]) < Pos(destroyed, objs[i])

DeviceKinds ==
    {"cpu"} \cup {LiverpoolOrder[k].kind : k \in DOMAIN LiverpoolOrder}
            \cup {AeoliaCtorOrder[k].kind : k \in DOMAIN AeoliaCtorOrder}

\* C9: at destruction every CPU device and every device on the bus is
\* released before the memory spaces registered in the address space are
\* deleted, and each alias is deleted before its parent RAM space.
\* Fails: the destructor deletes the memory spaces and no CPU device.
C9_DevicesBeforeSpaces ==
    pc = "destroyed" =>
      /\ \A k \in DOMAIN created : \A r \in DOMAIN subspaces :
            created[k].kind \in DeviceKinds =>
              /\ Destroyed(created[k])
              /\ Pos(destroyed, created[k])
                    < Pos(destroyed, Obj(subspaces[r].space))
      /\ \A al \in aliases :
            Pos(destroyed, Obj(al.name)) < Pos(destroyed, Obj(al.parent))

ScratchExpected ==
    <<<<0, 6>>, <<6, 4>>, <<9, 2>>, <<12, 1>>, <<13, 130>>,
      <<456, 87>>, <<457, 53>>, <<458, 67>>, <<459, 50>>, <<460, 49>>,
      <<352, 248>>, <<353, 111>>>>

\* C10: right after construction and before any recover call, for every
\* cpu_count and device-backend configuration, the scratch-pad at RAM offset
\* 0x600000 holds +0x000 = 6, +0x006 = 4, +0x009 = 2, +0x00C = 1,
\* +0x00D = 0x82, +0x1C8.. = 'W','5','C','2','1' and at +0x160 the bytes
\* 0xF8, 0x6F and eighteen zero bytes; the table is applied exactly once.
C10_ScratchPad ==
    /\ scratch_runs <= 1
    /\ (pc = "ready" /\ nrecover = 0) =>
          /\ scratch_runs = 1
          /\ \A k \in DOMAIN ScratchExpected :
                MemRead(space_ram, Addr(0, 6291456 + ScratchExpected[k][1]))
                  = ScratchExpected[k][2]
          /\ \A i \in 354..371 :
                MemRead(space_ram, Addr(0, 6291456 + i)) = 0

C10_Witness ==
    /\ pc = "ready"
    /\ nrecover = 0
    /\ config.cpu_count = MaxCpus
    /\ config.aeolia_uart0 = "pty"
    /\ config.aeolia_uart1 = "null"
    /\ apcie_config.backend_uart0 = "pty"
    /\ space_ram.fill # 0
    /\ MemRead(space_ram, Addr(0, 6291456 + 371)) = 0

\* C11: recover, its reset step included, and reset leave the layout of the
\* address space as it was right after construction: the registered
\* subspaces with their bases and sizes, and the aliases with their offsets.
C11_LayoutUnchanged ==
    [][LayoutBuilt => (subspaces' = subspaces /\ aliases' = aliases)]_vars

C11_Witness ==
    /\ LastOk
    /\ nrecover >= 2
    /\ Len(subspaces) = 3
    /\ Cardinality(aliases) = 2

\* C12: when the single program header of the signed executable is not of
\* type PT_LOAD, recover fails with UnsupportedImage and writes nothing to
\* RAM or to the firmware shadow.
\* Fails: the type is checked by assert only (line 161).
C12_LoadableOnly ==
    [][(/\ RecoverStep
        /\ PipelineError(FileNamed(last'.file)) = "none"
        /\ Phnum(FileNamed(last'.file)) = 1
        /\ Kernel(FileNamed(last'.file)).phdrs[1].p_type # PT_LOAD)
         => (/\ last'.result = "UnsupportedImage"
             /\ space_ram' = space_ram
             /\ space_ubios' = space_ubios)]_vars

\* the signed executable a file carries under "PS4UPDATE1.PUP", 5, "80010002"
C13_Fixture(f) == f.bls["PS4UPDATE1.PUP"][5]["80010002"]

C13_HasPup(f) == f.open /\ "PS4UPDATE1.PUP" \in DOMAIN f.bls

C13_HasCoreos(f) == C13_HasPup(f) /\ 5 \in DOMAIN f.bls["PS4UPDATE1.PUP"]

C13_HasKernel(f) ==
    C13_HasCoreos(f) /\ "80010002" \in DOMAIN f.bls["PS4UPDATE1.PUP"][5]

C13_WellFormed(f) ==
    /\ C13_HasKernel(f)
    /\ Len(C13_Fixture(f).phdrs) = 1
    /\ C13_Fixture(f).phdrs[1].p_type = PT_LOAD

C14_Devices ==
    {k \in DOMAIN created :
        created[k].kind \in DeviceKinds \ {"cpu"}}

\* C14: construction goes address space, then CPUs, then device topology:
\* whenever a CPU device exists the three subspaces are registered in the
\* composite space, and whenever the host bridge or a bus device exists the
\* CPU devices are exactly those of indices 0..cpu_count-1, each with its
\* state-change handler registered and each constructed before every device.
C14_ConstructionOrder ==
    /\ NumCpus > 0 =>
          {subspaces[k].space : k \in DOMAIN subspaces}
              = {"space_ram_below_4g", "space_ram_above_4g", "space_ubios"}
    /\ \A k \in DOMAIN created : created[k].kind = "cpu" =>
          \A j \in DOMAIN created :
              created[j].kind \in {"space_ram", "space_ram_below_4g",
                                   "space_ram_above_4g", "space_ubios"} => j < k
    /\ C14_Devices # {} =>
          /\ NumCpus = config.cpu_count
          /\ \A i \in 0..(config.cpu_count - 1) :
                /\ \E k \in DOMAIN created : created[k] = Cpu(i)
                /\ i \in cpu_handlers
                /\ \A d \in C14_Devices : Pos(created, Cpu(i)) < d
                /\ \A j \in 0..(i - 1) :
                      Pos(created, Cpu(j)) < Pos(created, Cpu(i))

C14_Witness ==
    /\ pc = "ready"
    /\ config.cpu_count = MaxCpus
    /\ NumCpus = MaxCpus
    /\ cpu_handlers = 0..(MaxCpus - 1)
    /\ C14_Devices # {}

C16_Probes(h) ==
    {a \in {AddrAdd(h.p_paddr, Addr(0, h.pdata.size + k)) : k \in 0..ProbeSpan}
            \cup {AddrSub(h.p_paddr, Addr(0, k)) :
                     k \in {x \in 1..ProbeSpan : AddrLE(Addr(0, x), h.p_paddr)}}
            \cup {AddrAdd(h.p_paddr, Addr(0, boothowto_offset + k)) : k \in 0..3}
            \cup {Addr(0, boot_offset + i) : i \in {0, 13, 352, 353, 371, 460}}
            \cup {Addr(0, 0), ram_size_below_4g, AddrSub(ram_size, Addr(0, 1))} :
        AddrLT(a, ram_size)}

\* C16: with the patch step disabled, a successful recover changes no byte
\* of the RAM backing store outside [p_paddr, p_paddr + payload length): the
\* word at segment offset 0x3B341E keeps its value (the payload's when the
\* payload reaches it) and is not OR-ed with 0x800, the scratch-pad bytes
\* keep their values when the segment does not cover them, and a recover
\* call that got as far as the patch step ends without failure.
C16_PatchDisabled ==
    [][(RecoverStep /\ last'.result = "ok") =>
         LET h == last'.phdr IN
         /\ \A a \in C16_Probes(h) :
               MemRead(space_ram', a) =
                  IF InRange(a, h.p_paddr, Addr(0, h.pdata.size))
                  THEN BufByte(h.pdata, AddrSub(a, h.p_paddr).lo)
                  ELSE MemRead(space_ram, a)
         /\ pc' = "ready"
      ]_vars

C16_Witness ==
    /\ LastOk
    /\ last.file = "kernel"
    /\ MemRead(space_ram, AddrAdd(last.phdr.p_paddr,
                                  Addr(0, boothowto_offset + 1))) = 32
    /\ MemRead(space_ram, Addr(0, boot_offset)) = 6

C17_Constructed(o) == \E k \in DOMAIN created : created[k] = o

\* C17: the shared memory region is wired between constructed devices and
\* never dangles: whenever aeolia_pcie holds a region, aeolia_pcie and
\* aeolia_mem have both been constructed and the region is the one
\* aeolia_mem supplies; the wiring is in place once construction is over;
\* and the destructor deletes aeolia_pcie before aeolia_mem.
C17_SpmWiring ==
    /\ pcie_spm # "unset" =>
          /\ C17_Constructed(Obj("aeolia_pcie"))
          /\ C17_Constructed(Obj("aeolia_mem"))
          /\ pcie_spm = "aeolia_mem.spm"
    /\ pc \in {"ctor_scratch", "ready", "destroyed", "aborted", "crashed"} =>
          pcie_spm = "aeolia_mem.spm"
    /\ pc = "destroyed" =>
          /\ Destroyed(Obj("aeolia_pcie"))
          /\ Destroyed(Obj("aeolia_mem"))
          /\ Pos(destroyed, Obj("aeolia_pcie")) < Pos(destroyed, Obj("aeolia_mem"))

C17_Witness ==
    /\ pc = "destroyed"
    /\ pcie_spm = "aeolia_mem.spm"
    /\ Destroyed(Obj("aeolia_mem"))
    /\ nrecover > 0

\* C18: recover is repeatable: a successful recover(file) that follows a
\* successful recover of the same file leaves RAM over
\* [p_paddr, p_paddr + payload length) holding the payload and the firmware
\* shadow with the contents the first call gave it.
\* Fails: for a payload shorter than the shadow the copy of line 165 reads
\* past the end of the program data, and two calls need not read the same.
C18_Repeatable ==
    [][(/\ RecoverStep
        /\ last.result = "ok"
        /\ last'.result = "ok"
        /\ last'.file = last.file)
         => (/\ SegInRam(space_ram', last'.phdr)
             /\ \A i \in PayloadIdx(ubios_size) :
                   MemRead(space_ubios', Addr(0, i))
                     = MemRead(space_ubios, Addr(0, i)))]_vars

====
